---- MODULE Spec2Model ----
(***************************************************************************)
(* Model of gemini-cli-updater: the persistent config store                *)
(* (lib/config.js), the update decision core (lib/updater.js) and the      *)
(* wrapper command line (bin/, two launchers).                             *)
(*                                                                         *)
(* Time is in milliseconds, as Date.now() reports it.  Versions are        *)
(* records [major, minor, patch, pre]; pre = "" is a release.              *)
(***************************************************************************)
EXTENDS Integers, Sequences, FiniteSets, TLC

VARIABLES
    file,       \* ~/.gemini-cli-updater/config.json: [state, doc]
    now,        \* Date.now()
    tool,       \* what `gemini --version` answers: [kind, v]
    last,       \* observation of the most recent Updater/Config call
    ops,        \* number of calls made so far (bounded by MaxOps)
    argv,       \* process.argv.slice(2) of the wrapper
    env,        \* process.env.GEMINI_UPDATER_SKIP_UPDATE = 'true'
    launcher,   \* which bin script runs: "npmRoot" or "path"
    pc,         \* position of the wrapper's run()
    needsUpdate,\* checkAndUpdate's local needsUpdate
    done,       \* the calls the wrapper has made so far
    located,    \* whether launchGemini found the wrapped tool
    child,      \* the spawned child process: [state, args]
    received,   \* signals delivered to the wrapper while the child runs
    forwarded,  \* signals the wrapper sent to the child
    exitCode,   \* process.exit code of the wrapper (NULL while alive)
    lookups,    \* the last two checks that reached the registry: [t0, t1, stamped]
    shell,      \* what ShellDetector.detectShell() answers
    rc,         \* the shell config files under the home directory
    aliased,    \* the config files Installer.setupShellAlias appended to
    inPc,       \* position of the Installer
    unArgv,     \* process.argv of the uninstall script
    unPc,       \* position of Uninstaller.uninstall()
    userData,   \* ~/.gemini-cli-updater apart from config.json: [dir, log, old, other]
    updated,    \* the verified updates made in a row: [n, from]
    bins,       \* the files at the paths removeBinaries looks at
    platform,   \* os.platform()
    clPc,       \* position of CompleteCleanup.cleanup()
    clArgv,     \* process.argv of the cleanup script
    rmw,        \* two processes inside a config read-modify-write: [pc, todo, snap, raced]
    lastWritten \* the document of the latest writeFileSync

vars == <<file, now, tool, last, ops, argv, env, launcher, pc, needsUpdate,
          done, located, child, received, forwarded, exitCode, lookups, shell,
          rc, aliased, inPc, unArgv, unPc, userData, updated, bins, platform,
          clPc, clArgv, rmw, lastWritten>>

cliVars == <<argv, env, launcher, pc, needsUpdate, done, located, child,
             received, forwarded, exitCode>>

\* the state of the install and uninstall scripts
auxVars == <<shell, rc, aliased, inPc, unArgv, unPc>>

\* the state of the cleanup script and of racing config writers
extVars == <<bins, platform, clPc, clArgv, rmw, lastWritten>>

-----------------------------------------------------------------------------
(* Bounds *)

MaxOps == 3         \* calls per behaviour of the library specification
MaxCalls == 2       \* calls per behaviour of the explicit operations
MaxSignals == 2     \* signals delivered to one wrapper run
MaxArgs == 2        \* arguments on the wrapper's command line

-----------------------------------------------------------------------------
(* Values *)

NULL == -1          \* JavaScript null / undefined for timestamps and codes

\* `!x` for a timestamp: null, undefined and 0 are falsy
Falsy(x) == x = NULL \/ x = 0

UpdateCooldown == 60 * 60 * 1000

DefaultMaxVersionHistory == 10

\* Date.now() when the behaviour starts: any real clock is far past one
\* cooldown after the epoch
ClockStart == 3 * UpdateCooldown

Version(ma, mi, pa, pre) == [major |-> ma, minor |-> mi, patch |-> pa, pre |-> pre]

V123 == Version(1, 2, 3, "")
V1100 == Version(1, 10, 0, "")
V200beta == Version(2, 0, 0, "beta")
V200 == Version(2, 0, 0, "")

Versions == {V123, V1100, V200beta, V200}

\* the versions a `\d+\.\d+\.\d+` match can yield
CoreVersions == {v \in Versions : v.pre = ""}

NoVersion == Version(0, 0, 0, "")

\* a version string or null
Some(v) == [kind |-> "version", v |-> v]
None == [kind |-> "null", v |-> NoVersion]

-----------------------------------------------------------------------------
(* semver.lt *)

\* prerelease identifiers compare in ASCII order
PreRank(p) == CASE p = "alpha" -> 1 [] p = "beta" -> 2 [] p = "rc" -> 3 [] OTHER -> 0

compareMain(a, b) ==
    IF a.major # b.major THEN (IF a.major < b.major THEN -1 ELSE 1)
    ELSE IF a.minor # b.minor THEN (IF a.minor < b.minor THEN -1 ELSE 1)
    ELSE IF a.patch # b.patch THEN (IF a.patch < b.patch THEN -1 ELSE 1)
    ELSE 0

comparePre(a, b) ==
    IF a.pre # "" /\ b.pre = "" THEN -1
    ELSE IF a.pre = "" /\ b.pre # "" THEN 1
    ELSE IF a.pre = b.pre THEN 0
    ELSE IF PreRank(a.pre) < PreRank(b.pre) THEN -1 ELSE 1

semverCompare(a, b) ==
    IF compareMain(a, b) # 0 THEN compareMain(a, b) ELSE comparePre(a, b)

semverLt(a, b) == semverCompare(a, b) < 0

-----------------------------------------------------------------------------
(* lib/config.js *)

DefaultSettings ==
    [updateCooldown |-> UpdateCooldown, maxVersionHistory |-> DefaultMaxVersionHistory]

getDefaultConfig ==
    [lastUpdateCheck |-> NULL,
     lastUpdateTime |-> NULL,
     versionHistory |-> <<>>,
     settings |-> DefaultSettings]

Stored(doc) == [state |-> "ok", doc |-> doc]
Corrupt == [state |-> "corrupt", doc |-> getDefaultConfig]
Missing == [state |-> "missing", doc |-> getDefaultConfig]

\* readConfig: the parsed document over the defaults; the defaults when the
\* file is missing or does not parse
readConfig(f) == IF f.state = "ok" THEN f.doc ELSE getDefaultConfig

writeConfig(f, config) == Stored(config)

getLastUpdateCheck(f) == readConfig(f).lastUpdateCheck

setLastUpdateCheck(f, timestamp) ==
    writeConfig(f, [readConfig(f) EXCEPT !.lastUpdateCheck = timestamp])

getLastUpdateTime(f) == readConfig(f).lastUpdateTime

setLastUpdateTime_Clobber(f, timestamp) ==
    writeConfig(f, [getDefaultConfig EXCEPT !.lastUpdateTime = timestamp])

setLastUpdateTime(f, timestamp) ==
    writeConfig(f, [readConfig(f) EXCEPT !.lastUpdateTime = timestamp])

getVersionHistory(f) == readConfig(f).versionHistory

\* Array.prototype.slice(-n) for n > 0: the last n elements
SliceLast(s, n) ==
    IF Len(s) <= n THEN s ELSE SubSeq(s, Len(s) - n + 1, Len(s))

\* `config.settings?.maxVersionHistory || 10`
maxHistoryOf(config) ==
    IF config.settings.maxVersionHistory = 0
    THEN DefaultMaxVersionHistory
    ELSE config.settings.maxVersionHistory

addVersionHistory(f, fromVersion, toVersion, t) ==
    LET config == readConfig(f)
        versionEntry == [from |-> fromVersion, to |-> toVersion,
                         timestamp |-> t, success |-> TRUE]
        pushed == Append(config.versionHistory, versionEntry)
        maxHistory == maxHistoryOf(config)
        kept == IF Len(pushed) > maxHistory
                THEN SliceLast(pushed, maxHistory)
                ELSE pushed
    IN writeConfig(f, [config EXCEPT !.versionHistory = kept])

\* updateSettings({maxVersionHistory: m}) / ({updateCooldown: c})
updateSettings(f, key, value) ==
    LET config == readConfig(f)
    IN writeConfig(f, [config EXCEPT !.settings[key] = value])

\* importConfig(configData) for an object: the data over the defaults
importConfig(f, configData) == writeConfig(f, configData)

ensureConfigExists(f) ==
    IF f.state = "missing" THEN writeConfig(f, getDefaultConfig) ELSE f

\* reset: unlink the file, then ensureConfigExists
reset(f) == ensureConfigExists(Missing)

getUpdateCooldown(f) ==
    IF readConfig(f).settings.updateCooldown = 0
    THEN UpdateCooldown
    ELSE readConfig(f).settings.updateCooldown

-----------------------------------------------------------------------------
(* lib/updater.js *)

\* this.updateCooldown, set in the constructor
updateCooldown == UpdateCooldown

isWithinCooldown_NoGate(f, t) == FALSE

isWithinCooldown(f, t) ==
    LET lastCheck == getLastUpdateCheck(f)
    IN IF Falsy(lastCheck) THEN FALSE
       ELSE (t - lastCheck) < updateCooldown

\* what `gemini --version` prints
ToolAbsent == [kind |-> "absent", v |-> NoVersion]      \* the command fails
ToolGarbled == [kind |-> "garbled", v |-> NoVersion]    \* no dotted triple
ToolAt(v) == [kind |-> "version", v |-> v]
ToolStates == {ToolAbsent, ToolGarbled} \cup {ToolAt(v) : v \in Versions}

\* getCurrentVersion: the first \d+\.\d+\.\d+ of the output, or null
getCurrentVersion(tl) ==
    IF tl.kind = "version"
    THEN Some([tl.v EXCEPT !.pre = ""])
    ELSE None

\* the registry's answer to GET /<package>/latest
RegError == [kind |-> "error", v |-> NoVersion]         \* connection error
RegTimeout == [kind |-> "timeout", v |-> NoVersion]     \* 10 s timeout
RegBadJson == [kind |-> "badjson", v |-> NoVersion]     \* body does not parse
RegNoField == [kind |-> "nofield", v |-> NoVersion]     \* JSON without version
RegOk(v) == [kind |-> "ok", v |-> v]
RegAnswers ==
    {RegError, RegTimeout, RegBadJson, RegNoField} \cup {RegOk(v) : v \in Versions}

\* getLatestVersion rejects
latestRejects(reg) == reg.kind \in {"error", "timeout", "badjson"}

\* getLatestVersion resolves with packageInfo.version (undefined when the
\* field is missing)
getLatestVersion(reg) == IF reg.kind = "ok" THEN Some(reg.v) ELSE None

\* the outcome of one checkForUpdate: the value returned (the try/catch
\* around the whole body lets nothing escape), the file it leaves, the
\* external calls it made and the branch it took
Outcome(ret, f, calls, branch) ==
    [ret |-> ret, threw |-> FALSE, file |-> f, calls |-> calls,
     branch |-> branch]

ResolverCalls == {"version", "registry"}

checkForUpdate_StampFirst(f, t0, t1, tl, reg) ==
    IF isWithinCooldown(f, t0)
    THEN Outcome(FALSE, f, {}, "cooldown")
    ELSE IF latestRejects(reg)
    THEN Outcome(FALSE, setLastUpdateCheck(f, t1), ResolverCalls, "failed")
    ELSE IF getCurrentVersion(tl) = None
    THEN Outcome(TRUE, f, ResolverCalls, "absent")
    ELSE IF getLatestVersion(reg) = None
    THEN Outcome(FALSE, setLastUpdateCheck(f, t1), ResolverCalls, "failed")
    ELSE LET cur == getCurrentVersion(tl).v
             latest == getLatestVersion(reg).v
             stamped == setLastUpdateCheck(f, t1)
         IN IF semverLt(cur, latest)
            THEN Outcome(TRUE, addVersionHistory(stamped, cur, latest, t1),
                         ResolverCalls, "needed")
            ELSE Outcome(FALSE, stamped, ResolverCalls, "uptodate")

checkForUpdate_CompareFirst(f, t0, t1, tl, reg) ==
    IF isWithinCooldown(f, t0)
    THEN Outcome(FALSE, f, {}, "cooldown")
    ELSE IF latestRejects(reg)
    THEN Outcome(FALSE, f, ResolverCalls, "failed")
    ELSE IF getCurrentVersion(tl) = None \/ getLatestVersion(reg) = None
    THEN Outcome(FALSE, f, ResolverCalls, "failed")
    ELSE LET cur == getCurrentVersion(tl).v
             latest == getLatestVersion(reg).v
             stamped == setLastUpdateCheck(f, t1)
         IN IF semverLt(cur, latest)
            THEN Outcome(TRUE, addVersionHistory(stamped, cur, latest, t1),
                         ResolverCalls, "needed")
            ELSE Outcome(FALSE, stamped, ResolverCalls, "uptodate")

\* t0: Date.now() at the cooldown gate; t1: Date.now() after the await
checkForUpdate(f, t0, t1, tl, reg) ==
    IF isWithinCooldown(f, t0)
    THEN Outcome(FALSE, f, {}, "cooldown")
    ELSE IF latestRejects(reg)
    THEN Outcome(FALSE, f, ResolverCalls, "failed")         \* catch
    ELSE IF getCurrentVersion(tl) = None
    THEN Outcome(TRUE, f, ResolverCalls, "absent")
    ELSE IF getLatestVersion(reg) = None
    THEN Outcome(FALSE, f, ResolverCalls, "failed")         \* semver.lt throws
    ELSE LET cur == getCurrentVersion(tl).v
             latest == getLatestVersion(reg).v
             stamped == setLastUpdateCheck(f, t1)
         IN IF semverLt(cur, latest)
            THEN Outcome(TRUE, addVersionHistory(stamped, cur, latest, t1),
                         ResolverCalls, "needed")
            ELSE Outcome(FALSE, stamped, ResolverCalls, "uptodate")


\* the outcome of `npm install -g <package>`: it fails, or it succeeds and
\* leaves the tool answering `post` to --version
InstallFails == [ok |-> FALSE, post |-> ToolAbsent]
InstallOk(post) == [ok |-> TRUE, post |-> post]
InstallOutcomes == {InstallFails} \cup {InstallOk(p) : p \in ToolStates}

performUpdate_StampWhenVerified(f, t, tl, inst) ==
    IF ~inst.ok
    THEN [threw |-> TRUE, ret |-> FALSE, file |-> f, tool |-> tl,
          branch |-> "installFailed"]
    ELSE IF getCurrentVersion(inst.post) # None
    THEN [threw |-> FALSE, ret |-> TRUE, file |-> setLastUpdateTime(f, t),
          tool |-> inst.post, branch |-> "installed"]
    ELSE [threw |-> TRUE, ret |-> FALSE, file |-> f,
          tool |-> inst.post, branch |-> "unverified"]

\* performUpdate: [threw, ret, file, tool]
performUpdate(f, t, tl, inst) ==
    IF ~inst.ok
    THEN [threw |-> TRUE, ret |-> FALSE, file |-> f, tool |-> tl,
          branch |-> "installFailed"]
    ELSE LET stamped == setLastUpdateTime(f, t)
         IN IF getCurrentVersion(inst.post) # None
            THEN [threw |-> FALSE, ret |-> TRUE, file |-> stamped,
                  tool |-> inst.post, branch |-> "installed"]
            ELSE [threw |-> TRUE, ret |-> FALSE, file |-> stamped,
                  tool |-> inst.post, branch |-> "unverified"]

\* the external commands one performUpdate runs
performCalls(inst) == {"install"} \cup (IF inst.ok THEN {"version"} ELSE {})

\* forceUpdate: reset the cooldown, then
\* `await this.checkForUpdate() && await this.performUpdate()`
forceUpdate_NoReset(f, t0, t1, tl, reg, inst) ==
    LET c == checkForUpdate(f, t0, t1, tl, reg)
        p == performUpdate(c.file, t1, tl, inst)
    IN IF ~c.ret
       THEN [ret |-> FALSE, threw |-> FALSE, file |-> c.file, tool |-> tl,
             calls |-> c.calls, branch |-> c.branch]
       ELSE [ret |-> p.ret, threw |-> p.threw, file |-> p.file,
             tool |-> p.tool, calls |-> c.calls \cup performCalls(inst),
             branch |-> p.branch]

forceUpdate(f, t0, t1, tl, reg, inst) ==
    LET c == checkForUpdate(setLastUpdateCheck(f, 0), t0, t1, tl, reg)
        p == performUpdate(c.file, t1, tl, inst)
    IN IF ~c.ret
       THEN [ret |-> FALSE, threw |-> FALSE, file |-> c.file, tool |-> tl,
             calls |-> c.calls, branch |-> c.branch]
       ELSE [ret |-> p.ret, threw |-> p.threw, file |-> p.file,
             tool |-> p.tool, calls |-> c.calls \cup performCalls(inst),
             branch |-> p.branch]

\* rollbackToPreviousVersion; installs is whether
\* `npm install -g <package>@<version>` succeeds; target is the version the
\* command pins
rollbackToPreviousVersion_LastEntry(f, tl, installs) ==
    LET versionHistory == getVersionHistory(f)
    IN IF Len(versionHistory) < 2
       THEN [ret |-> FALSE, threw |-> TRUE, tool |-> tl, calls |-> {},
             target |-> NoVersion, branch |-> "noTarget"]
       ELSE LET previousVersion == versionHistory[Len(versionHistory)]
            IN IF installs
               THEN [ret |-> TRUE, threw |-> FALSE,
                     tool |-> ToolAt(previousVersion.from),
                     calls |-> {"install"}, target |-> previousVersion.from,
                     branch |-> "rolledBack"]
               ELSE [ret |-> FALSE, threw |-> TRUE, tool |-> tl,
                     calls |-> {"install"}, target |-> previousVersion.from,
                     branch |-> "rollbackFailed"]

rollbackToPreviousVersion(f, tl, installs) ==
    LET versionHistory == getVersionHistory(f)
    IN IF Len(versionHistory) < 2
       THEN [ret |-> FALSE, threw |-> TRUE, tool |-> tl, calls |-> {},
             target |-> NoVersion, branch |-> "noTarget"]
       ELSE LET previousVersion == versionHistory[Len(versionHistory) - 1]
            IN IF installs
               THEN [ret |-> TRUE, threw |-> FALSE,
                     tool |-> ToolAt(previousVersion.from),
                     calls |-> {"install"}, target |-> previousVersion.from,
                     branch |-> "rolledBack"]
               ELSE [ret |-> FALSE, threw |-> TRUE, tool |-> tl,
                     calls |-> {"install"}, target |-> previousVersion.from,
                     branch |-> "rollbackFailed"]

-----------------------------------------------------------------------------
(* Inputs *)

\* time that passes while checkForUpdate awaits the two resolvers
AwaitDelays == {0, 1}

\* how far the clock moves between two calls
TickSteps == {1, UpdateCooldown - 1, UpdateCooldown}

\* settings a user stores with updateSettings
HistoryCaps == {0, 1, 2, DefaultMaxVersionHistory}
Cooldowns == {UpdateCooldown, 2 * UpdateCooldown}

\* transitions a caller records with addVersionHistory
HistoryPairs == {<<V123, V1100>>, <<V1100, V200>>}

\* no child process yet
NoChild == [state |-> "none", args |-> <<>>, code |-> NULL]

\* documents left by earlier runs
StoredDocs ==
    {getDefaultConfig,
     [getDefaultConfig EXCEPT !.lastUpdateCheck = 0],
     [getDefaultConfig EXCEPT !.lastUpdateCheck = ClockStart - 1],
     [getDefaultConfig EXCEPT !.lastUpdateCheck = ClockStart - UpdateCooldown],
     [getDefaultConfig EXCEPT !.lastUpdateCheck = ClockStart + 1,
                              !.settings.maxVersionHistory = 1]}

\* documents a user imports from a backup
ImportDocs ==
    {[getDefaultConfig EXCEPT
        !.versionHistory = <<[from |-> V123, to |-> V1100,
                              timestamp |-> ClockStart - 2, success |-> TRUE],
                             [from |-> V1100, to |-> V200,
                              timestamp |-> ClockStart - 1, success |-> TRUE]>>]}

-----------------------------------------------------------------------------
(* Observation of a call *)

NoReg == [kind |-> "none", v |-> NoVersion]

\* no verified update so far
NoUpdates == [n |-> 0, from |-> NoVersion]

\* the row of verified updates after a call with outcome r that found tool
\* tl: one longer when the call installed an update that checkForUpdate had
\* recorded and the new version answers, unbroken when the tool is as
\* before, begun anew otherwise
afterInstall(u, r, recorded, tl) ==
    IF /\ r.ret
       /\ recorded
       /\ tl.kind = "version"
       /\ LET h == getVersionHistory(r.file)
          IN /\ Len(h) > 0
             /\ h[Len(h)].from = getCurrentVersion(tl).v
             /\ r.tool = ToolAt(h[Len(h)].to)
    THEN [n |-> u.n + 1, from |-> getCurrentVersion(tl).v]
    ELSE IF r.tool = tl THEN u ELSE NoUpdates

NoCall ==
    [op |-> "none", ret |-> FALSE, threw |-> FALSE, branch |-> "none",
     calls |-> {}, pre |-> Missing, t0 |-> 0, t1 |-> 0, tool |-> ToolAbsent,
     reg |-> NoReg, target |-> NoVersion, chain |-> NoUpdates]

\* a call of operation op with outcome r, made at t0 on file pre and
\* returning at t1; tl and reg are what the tool and the registry answered;
\* target is the version a pinned install names; chain is the row of
\* verified updates the call found
Call(op, r, calls, pre, t0, t1, tl, reg) ==
    [op |-> op, ret |-> r.ret, threw |-> r.threw, branch |-> r.branch,
     calls |-> calls, pre |-> pre, t0 |-> t0, t1 |-> t1, tool |-> tl,
     reg |-> reg,
     target |-> IF "target" \in DOMAIN r THEN r.target ELSE NoVersion,
     chain |-> updated]

-----------------------------------------------------------------------------
(* The log file and the user-data directory: lib/logger.js *)

\* the directory ~/.gemini-cli-updater without config.json: whether it
\* exists, updater.log ("none", "underMax" or "overMax" bytes),
\* updater.log.old and any other file
UserDataStates ==
    {[dir |-> FALSE, log |-> "none", old |-> FALSE, other |-> FALSE]} \cup
    [dir : {TRUE}, log : {"none", "underMax", "overMax"}, old : BOOLEAN,
     other : BOOLEAN]

ensureLogDir(u) == [u EXCEPT !.dir = TRUE]

\* renameSync(logFile, logFile + '.old'), replacing an older one
rotateLog(u) == [u EXCEPT !.old = TRUE, !.log = "none"]

\* appendFileSync creates the file; without the directory it throws and the
\* catch swallows it
writeToFile(u) ==
    LET rotated == IF u.log = "overMax" THEN rotateLog(u) ELSE u
    IN IF ~u.dir THEN u ELSE [rotated EXCEPT !.log = "underMax"]

-----------------------------------------------------------------------------
(* Shell configuration files: lib/shell-detector.js *)

Shells == {"zsh", "bash", "fish", "cmd", "powershell"}

\* getShellConfigFile's table; <<>> is cmd's null
configFiles(sh) ==
    CASE sh = "zsh" -> <<".zshrc", ".zprofile">>
      [] sh = "bash" -> <<".bashrc", ".bash_profile", ".profile">>
      [] sh = "fish" -> <<".config/fish/config.fish">>
      [] sh = "powershell" -> <<"Documents/PowerShell/profile.ps1",
                                "Documents/WindowsPowerShell/profile.ps1">>
      [] OTHER -> <<>>

RcFiles ==
    UNION {{configFiles(sh)[i] : i \in 1..Len(configFiles(sh))} : sh \in Shells}

NoFile == "null"

\* a file is [exists, lines]; lines is content.split('\n'), a line is the
\* sequence of its pieces, cut so that every searched text is a run of pieces
Blank == <<>>
AbsentFile == [exists |-> FALSE, lines |-> <<Blank>>]
UserLine == <<"export PATH=$HOME/bin:$PATH">>
UserFile == [exists |-> TRUE, lines |-> <<UserLine, Blank>>]

\* String.prototype.includes on one line
includes(line, needle) ==
    \E i \in 0..(Len(line) - Len(needle)) :
        SubSeq(line, i + 1, i + Len(needle)) = needle

contentIncludes(lines, needle) ==
    \E i \in 1..Len(lines) : includes(lines[i], needle)

\* sh: the shell argument, or the detected shell where the caller passes null
getShellConfigFile(r, sh) ==
    LET files == configFiles(sh)
        existing == {i \in 1..Len(files) : r[files[i]].exists}
    IN IF files = <<>>
       THEN NoFile
       ELSE IF existing # {}
       THEN files[CHOOSE i \in existing : \A j \in existing : i <= j]
       ELSE files[1]

ListedShells == <<"zsh", "bash", "fish">>

getAllShellConfigFiles(r) ==
    SelectSeq([i \in 1..Len(ListedShells) |->
                  [shell |-> ListedShells[i],
                   file |-> getShellConfigFile(r, ListedShells[i])]],
              LAMBDA e : r[e.file].exists)

\* cur: this.detectShell(); the syntax follows the detected shell
generateAliasCommand(cur, aliasName, targetCommand) ==
    CASE cur = "fish" -> <<"alias ", aliasName, " '", targetCommand, "'">>
      [] cur = "powershell" ->
             <<"function ", aliasName, " { & ", targetCommand, " $args }">>
      [] cur = "cmd" -> <<"doskey ", aliasName, "=", targetCommand, " $*">>
      [] OTHER -> <<"alias ", aliasName, "=", "'", targetCommand, "'">>

AliasComment == <<"#", " Added by ", "claude-code-updater">>

\* fs.appendFileSync(configFile, "\n" + comment + "\n" + aliasCommand + "\n")
appendAliasBlock(f, aliasCommand) ==
    [exists |-> TRUE, lines |-> f.lines \o <<AliasComment, aliasCommand, Blank>>]

addAlias(r, cur, aliasName, targetCommand, sh) ==
    LET configFile == getShellConfigFile(r, sh)
        aliasCommand == generateAliasCommand(cur, aliasName, targetCommand)
    IN IF configFile = NoFile
       THEN [rc |-> r, ret |-> FALSE, threw |-> TRUE, file |-> configFile]
       ELSE IF r[configFile].exists
               /\ contentIncludes(r[configFile].lines, aliasCommand)
       THEN [rc |-> r, ret |-> FALSE, threw |-> FALSE, file |-> configFile]
       ELSE [rc |-> [r EXCEPT ![configFile] = appendAliasBlock(@, aliasCommand)],
             ret |-> TRUE, threw |-> FALSE, file |-> configFile]

\* the filter of removeAlias: TRUE for a line that stays
keepsLine(line, aliasName) ==
    /\ ~includes(line, <<"alias ", aliasName, "=">>)
    /\ ~includes(line, <<"function ", aliasName>>)
    /\ ~includes(line, <<"doskey ", aliasName, "=">>)
    /\ ~(includes(line, <<"claude-code-updater">>) /\ includes(line, <<"#">>))

removeAlias(r, aliasName, sh) ==
    LET configFile == getShellConfigFile(r, sh)
    IN IF configFile = NoFile \/ ~r[configFile].exists
       THEN [rc |-> r, ret |-> FALSE]
       ELSE LET lines == r[configFile].lines
                filteredLines == SelectSeq(lines, LAMBDA l : keepsLine(l, aliasName))
            IN IF Len(filteredLines) # Len(lines)
               THEN [rc |-> [r EXCEPT ![configFile].lines = filteredLines],
                     ret |-> TRUE]
               ELSE [rc |-> r, ret |-> FALSE]

\* the loop of Installer.setupShellAlias over the other shells' files, from
\* entry i of allShells; acc is [rc, added]
RECURSIVE addToOtherShells(_, _, _, _, _)
addToOtherShells(acc, cur, allShells, configFile, i) ==
    IF i > Len(allShells)
    THEN acc
    ELSE IF allShells[i].file = configFile
    THEN addToOtherShells(acc, cur, allShells, configFile, i + 1)
    ELSE LET a == addAlias(acc.rc, cur, "gemini", "gemini-cli-updater",
                           allShells[i].shell)
         IN addToOtherShells(
                [rc |-> a.rc,
                 added |-> IF a.ret THEN acc.added \cup {a.file} ELSE acc.added],
                cur, allShells, configFile, i + 1)

\* Installer.setupShellAlias: [rc, added], added being the files appended to
setupShellAlias(r, cur) ==
    LET configFile == getShellConfigFile(r, cur)
        first == addAlias(r, cur, "gemini", "gemini-cli-updater", cur)
        afterFirst == [rc |-> first.rc,
                       added |-> IF first.ret THEN {configFile} ELSE {}]
        allShells == getAllShellConfigFiles(first.rc)
    IN IF configFile = NoFile
       THEN [rc |-> r, added |-> {}]
       ELSE IF Len(allShells) > 1
       THEN addToOtherShells(afterFirst, cur, allShells, configFile, 1)
       ELSE afterFirst

RECURSIVE removeFromShells(_, _, _)
removeFromShells(r, allShells, i) ==
    IF i > Len(allShells)
    THEN r
    ELSE removeFromShells(removeAlias(r, "gemini", allShells[i].shell).rc,
                          allShells, i + 1)

\* Uninstaller.removeShellAliases: the files left behind
removeShellAliases(r, cur) ==
    LET listed == getAllShellConfigFiles(r)
        configFile == getShellConfigFile(r, cur)
        allShells ==
            IF configFile # NoFile
               /\ \A i \in 1..Len(listed) : listed[i].file # configFile
            THEN Append(listed, [shell |-> cur, file |-> configFile])
            ELSE listed
    IN removeFromShells(r, allShells, 1)

-----------------------------------------------------------------------------
(* User data: scripts/uninstall.js *)

UninstallFlags == {"--clean", "--purge", "--force", "--dry-run"}

\* [file, userData] after removeUserData
removeUserData(f, u) ==
    LET unlinked == [u EXCEPT !.log = "none"]
        empty == ~unlinked.old /\ ~unlinked.other
    IN [file |-> Missing,
        userData |-> IF u.dir /\ empty THEN [unlinked EXCEPT !.dir = FALSE]
                     ELSE unlinked]

handleUserData(f, u, args) ==
    LET configExists == f.state # "missing"
        logExists == u.log # "none"
        shouldClean == "--clean" \in args \/ "--purge" \in args
    IN IF ~configExists /\ ~logExists
       THEN [file |-> f, userData |-> u]
       ELSE IF shouldClean
       THEN removeUserData(f, u)
       ELSE [file |-> f, userData |-> u]

-----------------------------------------------------------------------------
(* The cleanup script: scripts/cleanup.js *)

\* readdirSync of ~/.nvm/versions/node
NvmVersions == <<"v18", "v20">>

\* possiblePaths of removeBinaries: [glob, path]; a glob path is cut at its *
possiblePaths ==
    << [glob |-> TRUE, path |-> <<".nvm/versions/node/", "/bin/gemini">>],
       [glob |-> TRUE,
        path |-> <<".nvm/versions/node/", "/bin/gemini-cli-updater">>],
       [glob |-> FALSE, path |-> <<"/usr/local/bin/gemini">>],
       [glob |-> FALSE, path |-> <<"/usr/local/bin/gemini-cli-updater">>],
       [glob |-> FALSE, path |-> <<"AppData/Roaming/npm/gemini.cmd">>],
       [glob |-> FALSE,
        path |-> <<"AppData/Roaming/npm/gemini-cli-updater.cmd">>] >>

\* binaryPath.replace('*', version)
fullPath(pattern, version) == <<pattern.path[1], version, pattern.path[2]>>

\* every path removeBinaries can look at
BinPaths ==
    UNION {IF possiblePaths[i].glob
           THEN {fullPath(possiblePaths[i], NvmVersions[v]) :
                     v \in 1..Len(NvmVersions)}
           ELSE {possiblePaths[i].path} : i \in 1..Len(possiblePaths)}

\* what a path holds: nothing, a directory (readFileSync throws), or a file
\* with its lines
AbsentBin == [exists |-> FALSE, readable |-> FALSE, lines |-> <<>>]
DirectoryBin == [exists |-> TRUE, readable |-> FALSE, lines |-> <<>>]
TextBin(lines) == [exists |-> TRUE, readable |-> TRUE, lines |-> lines]

\* bin/gemini of this package
WrapperBin ==
    TextBin(<< <<"#!/usr/bin/env node">>,
               <<"class ", "GeminiUpdaterCLI", " {">> >>)

\* the link npm makes on Windows for a bin of this package
ShimBin ==
    TextBin(<< <<"node \"%~dp0\\node_modules\\", "gemini-cli-updater",
                 "\\bin\\gemini\" %*">> >>)

\* the launcher of @google/gemini-cli
RealBin ==
    TextBin(<< <<"#!/usr/bin/env node">>, <<"import './dist/index.js'">> >>)

\* content.includes('gemini-cli-updater') || content.includes('GeminiUpdaterCLI')
isWrapper(f) ==
    \/ contentIncludes(f.lines, <<"gemini-cli-updater">>)
    \/ contentIncludes(f.lines, <<"GeminiUpdaterCLI">>)

removesAnyFile(f) == TRUE

\* the test removeBinaries makes on an existing, readable file before unlinkSync
removesFile(f) == isWrapper(f)

\* the loop over the versions of one glob path, from version v: a
\* readFileSync that throws leaves the loop by the catch around it
RECURSIVE removeGlob(_, _, _)
removeGlob(b, pattern, v) ==
    IF v > Len(NvmVersions)
    THEN b
    ELSE LET x == fullPath(pattern, NvmVersions[v])
         IN IF ~b[x].exists
            THEN removeGlob(b, pattern, v + 1)
            ELSE IF ~b[x].readable
            THEN b
            ELSE IF removesFile(b[x])
            THEN removeGlob([b EXCEPT ![x] = AbsentBin], pattern, v + 1)
            ELSE removeGlob(b, pattern, v + 1)

\* removeBinaries: the loop over possiblePaths, from entry i
RECURSIVE removeBinaries(_, _)
removeBinaries(b, i) ==
    IF i > Len(possiblePaths)
    THEN b
    ELSE LET pattern == possiblePaths[i]
             x == pattern.path
         IN IF pattern.glob
            THEN removeBinaries(removeGlob(b, pattern, 1), i + 1)
            ELSE IF b[x].exists /\ b[x].readable /\ removesFile(b[x])
            THEN removeBinaries([b EXCEPT ![x] = AbsentBin], i + 1)
            ELSE removeBinaries(b, i + 1)

\* shellFiles of removeAliases
cleanupShellFiles ==
    <<".bashrc", ".bash_profile", ".zshrc", ".config/fish/config.fish">>

\* profilePaths of removeAliases, read on win32 only
cleanupProfilePaths ==
    <<"Documents/PowerShell/profile.ps1",
      "Documents/WindowsPowerShell/profile.ps1">>

\* the filter of removeAliases: TRUE for a line that stays
cleanupKeepsLine(line) ==
    /\ ~includes(line, <<"gemini-cli-updater">>)
    /\ ~includes(line, <<"alias ", "gemini", "=">>)
    /\ ~includes(line, <<"#", " Added by ", "gemini-cli-updater">>)

cleanFile(f) ==
    LET filteredLines == SelectSeq(f.lines, cleanupKeepsLine)
    IN IF f.exists /\ Len(filteredLines) # Len(f.lines)
       THEN [f EXCEPT !.lines = filteredLines]
       ELSE f

\* the pieces of a line before the first occurrence of needle
beforeMatch(line, needle) ==
    LET at == CHOOSE i \in 0..(Len(line) - Len(needle)) :
                  /\ SubSeq(line, i + 1, i + Len(needle)) = needle
                  /\ \A j \in 0..(i - 1) :
                         SubSeq(line, j + 1, j + Len(needle)) # needle
    IN SubSeq(line, 1, at)

\* content.replace(/<needle>.*\r?\n/g, ''): every occurrence goes with the
\* rest of its line and the newline, so what stood before it joins the next
\* line; the last line has no newline and stays
RECURSIVE replaceToEol(_, _)
replaceToEol(lines, needle) ==
    IF Len(lines) <= 1
    THEN lines
    ELSE LET rest == replaceToEol(Tail(lines), needle)
         IN IF includes(Head(lines), needle)
            THEN <<beforeMatch(Head(lines), needle) \o Head(rest)>> \o Tail(rest)
            ELSE <<Head(lines)>> \o rest

cleanProfile(f) ==
    IF f.exists /\ contentIncludes(f.lines, <<"gemini-cli-updater">>)
    THEN [f EXCEPT !.lines =
             replaceToEol(replaceToEol(@, <<"function ", "gemini">>),
                          <<"#", " Added by ", "gemini-cli-updater">>)]
    ELSE f

inSeq(x, sq) == \E i \in 1..Len(sq) : sq[i] = x

\* CompleteCleanup.removeAliases: the files left behind
cleanupRemoveAliases(r, os) ==
    [x \in DOMAIN r |->
        IF inSeq(x, cleanupShellFiles) THEN cleanFile(r[x])
        ELSE IF os = "win32" /\ inSeq(x, cleanupProfilePaths)
        THEN cleanProfile(r[x])
        ELSE r[x]]

CleanupFlags == {"--clean", "--purge", "--force"}

\* CompleteCleanup.removeUserData: rmSync(configDir, recursive) on a flag
cleanupRemoveUserData(f, u, args) ==
    IF u.dir /\ args \cap CleanupFlags # {}
    THEN [file |-> Missing,
          userData |-> [dir |-> FALSE, log |-> "none", old |-> FALSE,
                        other |-> FALSE]]
    ELSE [file |-> f, userData |-> u]

-----------------------------------------------------------------------------
(* Two processes writing the config file: readFileSync, then writeFileSync,
   which opens with truncation and then writes *)

Writers == {1, 2}

IdleWriter == [pc |-> "idle", todo |-> <<>>, snap |-> Missing, raced |-> FALSE]

\* the config writes of one wrapper run: a check that finds the tool up to
\* date, and a check that finds an update followed by performUpdate
WriterPlans ==
    {<<"setLastUpdateCheck">>,
     <<"setLastUpdateCheck", "addVersionHistory", "setLastUpdateTime">>}

\* the document the method writes, from the content it read
writtenBy(op, snap, t) ==
    CASE op = "setLastUpdateCheck" -> setLastUpdateCheck(snap, t).doc
      [] op = "setLastUpdateTime" -> setLastUpdateTime(snap, t).doc
      [] OTHER -> addVersionHistory(snap, V123, V1100, t).doc

\* the file after open(O_TRUNC): empty, which does not parse
Truncated == Corrupt

\* the file after a write over a longer one: the new document, then the tail
\* of the old one, which does not parse
Mixed == Corrupt

\* the number of decimal digits of n
RECURSIVE digits(_)
digits(n) == IF n < 10 THEN 1 ELSE 1 + digits(n \div 10)

\* characters of a timestamp in JSON: null, or its digits
stampLength(x) == IF x = NULL THEN 4 ELSE digits(x)

\* characters of a version string: three numbers, two dots, "-" and the tag
versionLength(v) ==
    digits(v.major) + digits(v.minor) + digits(v.patch) + 2
        + (IF v.pre = "" THEN 0 ELSE 5)

\* characters JSON.stringify(config, null, 2) spends on one history entry
\* apart from its values, and on a non-empty list apart from its entries
EntryChars == 90
ListChars == 2

RECURSIVE historyLength(_)
historyLength(h) ==
    IF h = <<>>
    THEN 0
    ELSE EntryChars + versionLength(Head(h).from) + versionLength(Head(h).to)
             + stampLength(Head(h).timestamp) + historyLength(Tail(h))

\* the length of JSON.stringify(config, null, 2), less what every document has
jsonLength(doc) ==
    stampLength(doc.lastUpdateCheck) + stampLength(doc.lastUpdateTime)
        + digits(doc.settings.updateCooldown)
        + digits(doc.settings.maxVersionHistory)
        + (IF doc.versionHistory = <<>> THEN 0
           ELSE ListChars + historyLength(doc.versionHistory))

\* fs.writeFileSync after the open: the document goes in from offset 0; where
\* `landed` (another process wrote since the file was last emptied) the file
\* still holds that document, and a longer one keeps its tail
writeOver(f, doc, landed) ==
    IF landed /\ (f.state # "ok" \/ jsonLength(f.doc) > jsonLength(doc))
    THEN Mixed
    ELSE Stored(doc)

\* the cleanup script and the racing writers are not running
ExtIdle ==
    /\ bins = [x \in BinPaths |-> AbsentBin]
    /\ platform = "linux"
    /\ clPc = "idle"
    /\ clArgv = {}
    /\ rmw = [p \in Writers |-> IdleWriter]
    /\ lastWritten = getDefaultConfig

\* the install and uninstall scripts are not running
SetupIdle ==
    /\ shell = "bash"
    /\ rc = [x \in RcFiles |-> AbsentFile]
    /\ aliased = {}
    /\ inPc = "idle"
    /\ unArgv = {}
    /\ unPc = "idle"
    /\ userData = [dir |-> TRUE, log |-> "none", old |-> FALSE, other |-> FALSE]

-----------------------------------------------------------------------------
(* The checks that reached the registry *)

\* whether the call that left file f at time t1 recorded lastUpdateCheck
stampedAt(f, t1) == f.state = "ok" /\ getLastUpdateCheck(f) = t1

recordLookup(ls, r, t0, t1) ==
    IF "registry" \in r.calls
    THEN LET all == Append(ls, [t0 |-> t0, t1 |-> t1,
                                stamped |-> stampedAt(r.file, t1),
                                failed |-> r.branch = "failed",
                                stamp |-> getLastUpdateCheck(r.file)])
         IN IF Len(all) > 2 THEN Tail(all) ELSE all
    ELSE ls

-----------------------------------------------------------------------------
(* The library: Updater and Config called in any order *)

CliIdle ==
    /\ argv = <<>>
    /\ env = FALSE
    /\ launcher = "npmRoot"
    /\ pc = "idle"
    /\ needsUpdate = FALSE
    /\ done = {}
    /\ located = "unknown"
    /\ child = NoChild
    /\ received = <<>>
    /\ forwarded = <<>>
    /\ exitCode = NULL

\* new Updater(...): new Config() has run ensureConfigExists
Init ==
    /\ file \in {Stored(d) : d \in StoredDocs} \cup {Corrupt}
    /\ now = ClockStart
    /\ tool \in ToolStates
    /\ last = NoCall
    /\ ops = 0
    /\ CliIdle
    /\ SetupIdle
    /\ lookups = <<>>
    /\ ExtIdle
    /\ updated = NoUpdates

CheckForUpdate(d, reg) ==
    /\ ops < MaxOps
    /\ LET r == checkForUpdate(file, now, now + d, tool, reg)
       IN /\ file' = r.file
          /\ now' = IF r.branch = "cooldown" THEN now ELSE now + d
          /\ last' = Call("check", r, r.calls, file, now, now', tool, reg)
          /\ lookups' = recordLookup(lookups, r, now, now')
    /\ ops' = ops + 1
    /\ UNCHANGED <<tool>>
    /\ userData' = writeToFile(userData)
    /\ UNCHANGED <<extVars, cliVars, auxVars>>
    /\ UNCHANGED updated

PerformUpdate(inst) ==
    /\ ops < MaxOps
    /\ LET r == performUpdate(file, now, tool, inst)
       IN /\ file' = r.file
          /\ tool' = r.tool
          /\ last' = Call("perform", r, performCalls(inst), file, now, now,
                          inst.post, NoReg)
    /\ ops' = ops + 1
    /\ UNCHANGED <<now>>
    /\ userData' = writeToFile(userData)
    /\ UNCHANGED <<extVars, cliVars, auxVars, lookups>>
    /\ updated' = afterInstall(updated, performUpdate(file, now, tool, inst),
                                last.op = "check" /\ last.branch = "needed", tool)

ForceUpdate(d, reg, inst) ==
    /\ ops < MaxCalls
    /\ LET r == forceUpdate(file, now, now + d, tool, reg, inst)
       IN /\ file' = r.file
          /\ tool' = r.tool
          /\ now' = now + d
          /\ last' = Call("force", r, r.calls, file, now, now', tool, reg)
          /\ lookups' = recordLookup(lookups, r, now, now')
    /\ ops' = ops + 1
    /\ userData' = writeToFile(userData)
    /\ UNCHANGED <<extVars, cliVars, auxVars>>
    /\ updated' = afterInstall(updated,
                                forceUpdate(file, now, now + d, tool, reg, inst),
                                tool.kind = "version", tool)

RollbackToPreviousVersion(installs) ==
    /\ ops < MaxCalls
    /\ LET r == rollbackToPreviousVersion(file, tool, installs)
       IN /\ tool' = r.tool
          /\ last' = Call("rollback", r, r.calls, file, now, now, tool, NoReg)
    /\ ops' = ops + 1
    /\ UNCHANGED <<file, now>>
    /\ userData' = writeToFile(userData)
    /\ UNCHANGED <<extVars, cliVars, auxVars, lookups>>
    /\ updated' = afterInstall(updated,
                                rollbackToPreviousVersion(file, tool, installs),
                                FALSE, tool)

\* a Config getter (getLastUpdateCheck, getVersionHistory, exportConfig...):
\* readConfig and nothing else
ReadConfig ==
    /\ ops < MaxOps
    /\ last' = Call("read", [ret |-> FALSE, threw |-> FALSE, branch |-> "config"],
                     {}, file, now, now, tool, NoReg)
    /\ ops' = ops + 1
    /\ UNCHANGED <<file, now, tool>>
    /\ UNCHANGED <<extVars, cliVars, auxVars, lookups, userData>>
    /\ UNCHANGED updated

\* a Config method that writes: the document it leaves is `f`
ConfigCall(op, f) ==
    /\ ops < MaxOps
    /\ file' = f
    /\ last' = Call(op, [ret |-> FALSE, threw |-> FALSE, branch |-> "config"],
                     {}, file, now, now, tool, NoReg)
    /\ ops' = ops + 1
    /\ UNCHANGED <<now, tool>>
    /\ UNCHANGED <<extVars, cliVars, auxVars, lookups, userData>>
    /\ UNCHANGED updated

SetLastUpdateCheck == ConfigCall("setLastUpdateCheck", setLastUpdateCheck(file, now))

SetLastUpdateTime == ConfigCall("setLastUpdateTime", setLastUpdateTime(file, now))

AddVersionHistory(from, to) ==
    ConfigCall("addVersionHistory", addVersionHistory(file, from, to, now))

UpdateSettings(key, value) ==
    ConfigCall("updateSettings", updateSettings(file, key, value))

ImportConfig(doc) == ConfigCall("importConfig", importConfig(file, doc))

Reset == ConfigCall("reset", reset(file))

Tick(d) ==
    /\ ops < MaxOps
    /\ now' = now + d
    /\ ops' = ops + 1
    /\ UNCHANGED <<file, tool, last>>
    /\ UNCHANGED <<extVars, cliVars, auxVars, lookups, userData>>
    /\ UNCHANGED updated

Next ==
    \/ \E d \in AwaitDelays, reg \in RegAnswers : CheckForUpdate(d, reg)
    \/ \E inst \in InstallOutcomes : PerformUpdate(inst)
    \/ ReadConfig
    \/ SetLastUpdateCheck
    \/ SetLastUpdateTime
    \/ \E p \in HistoryPairs : AddVersionHistory(p[1], p[2])
    \/ \E m \in HistoryCaps : UpdateSettings("maxVersionHistory", m)
    \/ \E c \in Cooldowns : UpdateSettings("updateCooldown", c)
    \/ \E doc \in ImportDocs : ImportConfig(doc)
    \/ Reset
    \/ \E d \in TickSteps : Tick(d)

Spec == Init /\ [][Next]_vars

\* the operations a user asks for explicitly, forceUpdate and
\* rollbackToPreviousVersion, after earlier runs left their history
NextExplicit ==
    \/ \E d \in AwaitDelays, reg \in RegAnswers, inst \in InstallOutcomes :
           ForceUpdate(d, reg, inst)
    \/ \E installs \in BOOLEAN : RollbackToPreviousVersion(installs)
    \/ \E p \in HistoryPairs : ops < MaxCalls /\ AddVersionHistory(p[1], p[2])
    \/ \E doc \in ImportDocs : ops < MaxCalls /\ ImportConfig(doc)
    \/ \E d \in TickSteps : ops < MaxCalls /\ Tick(d)

SpecExplicit == Init /\ [][NextExplicit]_vars


-----------------------------------------------------------------------------
(* bin/: the wrapper command line *)

\* a command-line argument is a string; it is held as the sequence of the
\* words that the spaces in it separate
SkipUpdateFlag == <<"--skip-update">>
ForceUpdateFlag == <<"--force-update">>
ArgValues == {SkipUpdateFlag, ForceUpdateFlag, <<"--help">>, <<"Hello,", "world!">>}

RECURSIVE SeqsUpTo(_, _)
SeqsUpTo(S, n) ==
    IF n = 0 THEN {<<>>}
    ELSE SeqsUpTo(S, n - 1) \cup
         {Append(s, x) : s \in {t \in SeqsUpTo(S, n - 1) : Len(t) = n - 1}, x \in S}

Argvs == SeqsUpTo(ArgValues, MaxArgs)

\* process.argv.includes('--skip-update')
includesSkipUpdate(args) == \E i \in 1..Len(args) : args[i] = SkipUpdateFlag

\* process.argv.slice(2).filter(arg => arg !== '--skip-update')
RECURSIVE filterSkipUpdate(_)
filterSkipUpdate(args) ==
    IF args = <<>> THEN <<>>
    ELSE IF Head(args) = SkipUpdateFlag THEN filterSkipUpdate(Tail(args))
    ELSE <<Head(args)>> \o filterSkipUpdate(Tail(args))

\* spawn(..., {shell: true}) joins the command and its arguments with spaces
\* into one command line, which the shell splits into words again
RECURSIVE shellWords(_)
shellWords(args) ==
    IF args = <<>> THEN <<>>
    ELSE [i \in 1..Len(Head(args)) |-> <<Head(args)[i]>>] \o shellWords(Tail(args))

\* the argument vector the spawned command receives
spawnArgs(l, args) == IF l = "path" THEN shellWords(args) ELSE args

\* whether launchGemini resolves the package itself before it spawns
locatesFirst(l) == l = "npmRoot"

\* run(): the update phase is entered unless --skip-update is given
entersUpdatePhase(args) == ~includesSkipUpdate(args)

\* checkAndUpdate's catch: warn, and return to run()
afterUpdateError_Rethrow == "fatal"

afterUpdateError == "launch"

\* gemini.on('close', code => process.exit(code || 0))
onClose_AlwaysZero(code) == 0

onClose(code) == IF Falsy(code) THEN 0 ELSE code

\* process.on('SIGINT', () => gemini.kill('SIGINT')) and the same for SIGTERM
Signals == {"SIGINT", "SIGTERM"}

onSignal_AlwaysTerm(sig) == "SIGTERM"

onSignal(sig) == sig

\* exit codes of the child; NULL when a signal killed it
ChildCodes == {NULL, 0, 1, 127}

\* the code run()'s catch exits with
FatalExit == 1

InitCLI ==
    /\ file \in {Stored(d) : d \in StoredDocs} \cup {Corrupt}
    /\ now = ClockStart
    /\ tool \in ToolStates
    /\ last = NoCall
    /\ ops = 0
    /\ argv \in Argvs
    /\ env \in BOOLEAN
    /\ launcher \in {"npmRoot", "path"}
    /\ pc = "start"
    /\ needsUpdate = FALSE
    /\ done = {}
    /\ located = "unknown"
    /\ child = NoChild
    /\ received = <<>>
    /\ forwarded = <<>>
    /\ exitCode = NULL
    /\ SetupIdle
    /\ lookups = <<>>
    /\ ExtIdle
    /\ updated = NoUpdates

\* run() with --skip-update: straight to the launch
CliSkipUpdate ==
    /\ pc = "start"
    /\ ~entersUpdatePhase(argv)
    /\ pc' = "launch"
    /\ UNCHANGED <<file, now, tool, last, ops, argv, env, launcher, needsUpdate,
                   done, located, child, received, forwarded, exitCode>>
    /\ UNCHANGED <<extVars, auxVars, lookups, userData>>
    /\ UNCHANGED updated

\* checkAndUpdate: await this.updater.checkForUpdate()
CliCheck(d, reg) ==
    /\ pc = "start"
    /\ entersUpdatePhase(argv)
    /\ LET r == checkForUpdate(file, now, now + d, tool, reg)
       IN /\ file' = r.file
          /\ now' = IF r.branch = "cooldown" THEN now ELSE now + d
          /\ last' = Call("check", r, r.calls, file, now, now', tool, reg)
          /\ lookups' = recordLookup(lookups, r, now, now')
          /\ needsUpdate' = r.ret
          /\ done' = done \cup {"checkForUpdate"} \cup r.calls
          /\ pc' = IF r.ret THEN "update" ELSE "launch"
    /\ UNCHANGED <<tool, ops, argv, env, launcher, located, child, received,
                   forwarded, exitCode>>
    /\ userData' = writeToFile(userData)
    /\ UNCHANGED <<extVars, auxVars>>
    /\ UNCHANGED updated

\* checkAndUpdate: await this.updater.performUpdate(), inside the try
CliPerformUpdate(inst) ==
    /\ pc = "update"
    /\ LET r == performUpdate(file, now, tool, inst)
       IN /\ file' = r.file
          /\ tool' = r.tool
          /\ last' = Call("perform", r, performCalls(inst), file, now, now,
                          inst.post, NoReg)
          /\ done' = done \cup {"performUpdate", "install"}
          /\ pc' = IF r.threw THEN afterUpdateError ELSE "launch"
    /\ UNCHANGED <<now, ops, argv, env, launcher, needsUpdate, located, child,
                   received, forwarded, exitCode>>
    /\ userData' = writeToFile(userData)
    /\ UNCHANGED <<extVars, auxVars, lookups>>
    /\ updated' = afterInstall(updated, performUpdate(file, now, tool, inst),
                                last.op = "check" /\ last.branch = "needed", tool)

\* launchGemini(args): locate (bin/gemini only), spawn, register the handlers
CliLaunch(found, spawns) ==
    /\ pc = "launch"
    /\ done' = done \cup {"launchGemini"}
    /\ located' = IF found THEN "yes" ELSE "no"
    /\ IF locatesFirst(launcher) /\ ~found
       THEN \* logger.error, reject(new Error('Gemini CLI not found'))
            /\ pc' = "fatal"
            /\ child' = child
            /\ userData' = writeToFile(userData)
       ELSE /\ pc' = "running"
            /\ child' = [state |-> IF spawns THEN "running" ELSE "spawnFailed",
                         args |-> spawnArgs(launcher, filterSkipUpdate(argv)),
                         code |-> NULL]
            /\ userData' = userData
    /\ UNCHANGED <<file, now, tool, last, ops, argv, env, launcher, needsUpdate,
                   received, forwarded, exitCode>>
    /\ UNCHANGED <<extVars, auxVars, lookups>>
    /\ UNCHANGED updated

\* run()'s catch: log the error and process.exit(1)
CliFatal ==
    /\ pc = "fatal"
    /\ pc' = "exited"
    /\ exitCode' = FatalExit
    /\ UNCHANGED <<file, now, tool, last, ops, argv, env, launcher, needsUpdate,
                   done, located, child, received, forwarded>>
    /\ userData' = writeToFile(userData)
    /\ UNCHANGED <<extVars, auxVars, lookups>>
    /\ UNCHANGED updated

\* gemini.on('error'): reject
ChildError ==
    /\ pc = "running"
    /\ child.state = "spawnFailed"
    /\ pc' = "fatal"
    /\ \* an ENOENT error is logged, any other is not
       userData' \in {userData, writeToFile(userData)}
    /\ UNCHANGED <<file, now, tool, last, ops, argv, env, launcher, needsUpdate,
                   done, located, child, received, forwarded, exitCode>>
    /\ UNCHANGED <<extVars, auxVars, lookups>>
    /\ UNCHANGED updated

\* gemini.on('close'): with the path launcher and no gemini on the PATH the
\* child is the shell, which ends with 127
ChildClose(code) ==
    /\ pc = "running"
    /\ child.state = "running"
    /\ located = "no" => code = 127
    /\ child' = [child EXCEPT !.state = "closed", !.code = code]
    /\ exitCode' = onClose(code)
    /\ pc' = "exited"
    /\ UNCHANGED <<file, now, tool, last, ops, argv, env, launcher, needsUpdate,
                   done, located, received, forwarded>>
    /\ UNCHANGED <<extVars, auxVars, lookups, userData>>
    /\ UNCHANGED updated

\* SIGINT / SIGTERM once launchGemini has registered its handlers
CliSignal(sig) ==
    /\ pc = "running"
    /\ child.state = "running"
    /\ Len(received) < MaxSignals
    /\ received' = Append(received, sig)
    /\ forwarded' = Append(forwarded, onSignal(sig))
    /\ UNCHANGED <<file, now, tool, last, ops, argv, env, launcher, pc,
                   needsUpdate, done, located, child, exitCode>>
    /\ UNCHANGED <<extVars, auxVars, lookups, userData>>
    /\ UNCHANGED updated

\* SIGINT / SIGTERM before any handler is registered: Node's default action
\* ends the wrapper
CliSignalDefault(sig) ==
    /\ pc \in {"start", "update", "launch"}
    /\ pc' = "killed"
    /\ UNCHANGED <<file, now, tool, last, ops, argv, env, launcher, needsUpdate,
                   done, located, child, received, forwarded, exitCode>>
    /\ UNCHANGED <<extVars, auxVars, lookups, userData>>
    /\ UNCHANGED updated

NextCLI ==
    \/ CliSkipUpdate
    \/ \E d \in AwaitDelays, reg \in RegAnswers : CliCheck(d, reg)
    \/ \E inst \in InstallOutcomes : CliPerformUpdate(inst)
    \/ \E found \in BOOLEAN, spawns \in BOOLEAN : CliLaunch(found, spawns)
    \/ CliFatal
    \/ ChildError
    \/ \E code \in ChildCodes : ChildClose(code)
    \/ \E sig \in Signals : CliSignal(sig)
    \/ \E sig \in Signals : CliSignalDefault(sig)

SpecCLI == InitCLI /\ [][NextCLI]_vars

-----------------------------------------------------------------------------
(* Wrapper runs one after another: each run checks, and updates when the
   check asked for it *)

NextRuns ==
    \/ \E d \in AwaitDelays, reg \in RegAnswers : CheckForUpdate(d, reg)
    \/ \E inst \in InstallOutcomes :
           last.op = "check" /\ last.ret /\ PerformUpdate(inst)
    \/ \E d \in TickSteps : Tick(d)

SpecRuns == Init /\ [][NextRuns]_vars

-----------------------------------------------------------------------------
(* The install and uninstall scripts: scripts/install.js and
   scripts/uninstall.js, run one after the other *)

\* the config files found in the home directory before the install
HomeLayouts ==
    {{}, {".zshrc"}, {".bashrc"}, {".profile"}, {".config/fish/config.fish"},
     {".zshrc", ".bashrc"}, {".zshrc", ".config/fish/config.fish"},
     {".zshrc", ".bashrc", ".config/fish/config.fish"},
     {"Documents/PowerShell/profile.ps1"}}

libVars == <<now, tool, last, ops, lookups, updated>>

InitSetup ==
    /\ shell \in Shells
    /\ \E present \in HomeLayouts :
           rc = [x \in RcFiles |-> IF x \in present THEN UserFile ELSE AbsentFile]
    /\ aliased = {}
    /\ inPc = "start"
    /\ unArgv \in SUBSET UninstallFlags
    /\ unPc = "start"
    /\ userData \in UserDataStates
    /\ file \in IF userData.dir
                THEN {Stored(getDefaultConfig), Corrupt, Missing}
                ELSE {Missing}
    /\ now = ClockStart
    /\ tool = ToolAbsent
    /\ last = NoCall
    /\ ops = 0
    /\ lookups = <<>>
    /\ updated = NoUpdates
    /\ CliIdle
    /\ ExtIdle

\* Installer.setupShellAlias
InSetupShellAlias ==
    /\ inPc = "start"
    /\ unPc = "start"
    /\ LET r == setupShellAlias(rc, shell)
       IN /\ rc' = r.rc
          /\ aliased' = r.added
    /\ inPc' = "done"
    /\ UNCHANGED <<shell, unArgv, unPc, userData, file>>
    /\ UNCHANGED <<extVars, libVars, cliVars>>

\* new Uninstaller(): new Logger() runs ensureLogDir, new Config() runs
\* ensureConfigExists
UnNew ==
    /\ unPc = "start"
    /\ userData' = ensureLogDir(userData)
    /\ file' = ensureConfigExists(file)
    /\ unPc' = "main"
    /\ UNCHANGED <<shell, rc, aliased, inPc, unArgv>>
    /\ UNCHANGED <<extVars, libVars, cliVars>>

\* --dry-run: dryRun() only prints
UnDryRun ==
    /\ unPc = "main"
    /\ "--dry-run" \in unArgv
    /\ unPc' = "done"
    /\ UNCHANGED <<shell, rc, aliased, inPc, unArgv, userData, file>>
    /\ UNCHANGED <<extVars, libVars, cliVars>>

\* --force: forceUninstall() pushes --clean and calls uninstall()
UnForceUninstall ==
    /\ unPc = "main"
    /\ "--dry-run" \notin unArgv
    /\ "--force" \in unArgv
    /\ unArgv' = unArgv \cup {"--clean"}
    /\ unPc' = "aliases"
    /\ UNCHANGED <<shell, rc, aliased, inPc, userData, file>>
    /\ UNCHANGED <<extVars, libVars, cliVars>>

\* otherwise: uninstall()
UnUninstall ==
    /\ unPc = "main"
    /\ "--dry-run" \notin unArgv
    /\ "--force" \notin unArgv
    /\ unPc' = "aliases"
    /\ UNCHANGED <<shell, rc, aliased, inPc, unArgv, userData, file>>
    /\ UNCHANGED <<extVars, libVars, cliVars>>

\* uninstall(): await this.removeShellAliases()
UnRemoveShellAliases ==
    /\ unPc = "aliases"
    /\ rc' = removeShellAliases(rc, shell)
    /\ unPc' = "userData"
    /\ UNCHANGED <<shell, aliased, inPc, unArgv, userData, file>>
    /\ UNCHANGED <<extVars, libVars, cliVars>>

\* uninstall(): await this.handleUserData()
UnHandleUserData ==
    /\ unPc = "userData"
    /\ LET r == handleUserData(file, userData, unArgv)
       IN /\ file' = r.file
          /\ userData' = r.userData
    /\ unPc' = "log"
    /\ UNCHANGED <<shell, rc, aliased, inPc, unArgv>>
    /\ UNCHANGED <<extVars, libVars, cliVars>>

\* uninstall(): this.logger.info('Gemini CLI Updater uninstalled')
UnLogUninstalled ==
    /\ unPc = "log"
    /\ userData' = writeToFile(userData)
    /\ unPc' = "done"
    /\ UNCHANGED <<shell, rc, aliased, inPc, unArgv, file>>
    /\ UNCHANGED <<extVars, libVars, cliVars>>

NextSetup ==
    \/ InSetupShellAlias
    \/ UnNew
    \/ UnDryRun
    \/ UnForceUninstall
    \/ UnUninstall
    \/ UnRemoveShellAliases
    \/ UnHandleUserData
    \/ UnLogUninstalled

SpecSetup == InitSetup /\ [][NextSetup]_vars

-----------------------------------------------------------------------------
(* The Updater's own operations, called one after the other *)

NextUpdater ==
    \/ \E d \in AwaitDelays, reg \in RegAnswers :
           ops < MaxCalls /\ CheckForUpdate(d, reg)
    \/ \E inst \in InstallOutcomes :
           /\ ops < MaxCalls
           /\ last.op = "check"
           /\ last.ret = TRUE
           /\ PerformUpdate(inst)
    \/ \E d \in AwaitDelays, reg \in RegAnswers, inst \in InstallOutcomes :
           ForceUpdate(d, reg, inst)
    \/ \E installs \in BOOLEAN : RollbackToPreviousVersion(installs)
    \/ \E d \in TickSteps : ops < MaxCalls /\ Tick(d)

SpecUpdater == Init /\ [][NextUpdater]_vars

-----------------------------------------------------------------------------
(* Two wrapper runs writing the config file at the same time *)

raceVars == <<file, rmw, lastWritten>>

InitRace ==
    /\ file \in {Stored(d) : d \in StoredDocs}
    /\ now = ClockStart
    /\ tool = ToolAt(V123)
    /\ last = NoCall
    /\ ops = 0
    /\ lookups = <<>>
    /\ updated = NoUpdates
    /\ CliIdle
    /\ SetupIdle
    /\ bins = [x \in BinPaths |-> AbsentBin]
    /\ platform = "linux"
    /\ clPc = "idle"
    /\ clArgv = {}
    /\ rmw \in [Writers -> {[pc |-> "ready", todo |-> plan, snap |-> Missing,
                             raced |-> FALSE] : plan \in WriterPlans}]
    /\ lastWritten = file.doc

raceFrame ==
    UNCHANGED <<now, tool, last, ops, lookups, updated, userData, bins,
                platform, clPc, clArgv, cliVars, auxVars>>

\* readConfig: fs.readFileSync
RmwRead(p) ==
    /\ rmw[p].pc = "ready"
    /\ rmw' = [rmw EXCEPT ![p].pc = "read", ![p].snap = file]
    /\ UNCHANGED <<file, lastWritten>>
    /\ raceFrame

\* writeConfig: fs.writeFileSync opens the file, which empties it; a write
\* another process had landed is gone
RmwOpen(p) ==
    /\ rmw[p].pc = "read"
    /\ file' = Truncated
    /\ rmw' = [q \in Writers |->
                  IF q = p THEN [rmw[q] EXCEPT !.pc = "open", !.raced = FALSE]
                  ELSE [rmw[q] EXCEPT !.raced = FALSE]]
    /\ UNCHANGED lastWritten
    /\ raceFrame

\* writeConfig: fs.writeFileSync writes the document
RmwWrite(p) ==
    /\ rmw[p].pc = "open"
    /\ LET doc == writtenBy(Head(rmw[p].todo), rmw[p].snap, now)
       IN /\ file' = writeOver(file, doc, rmw[p].raced)
          /\ lastWritten' = doc
    /\ rmw' = [q \in Writers |->
                  IF q = p
                  THEN [rmw[q] EXCEPT
                           !.pc = IF Len(rmw[q].todo) = 1 THEN "done" ELSE "ready",
                           !.todo = Tail(@)]
                  ELSE IF rmw[q].pc = "open"
                  THEN [rmw[q] EXCEPT !.raced = TRUE]
                  ELSE rmw[q]]
    /\ raceFrame

NextRace ==
    \/ \E p \in Writers : RmwRead(p)
    \/ \E p \in Writers : RmwOpen(p)
    \/ \E p \in Writers : RmwWrite(p)

SpecRace == InitRace /\ [][NextRace]_vars

-----------------------------------------------------------------------------
(* The cleanup script, scripts/cleanup.js, run after the installer *)

\* what the candidate paths hold before the cleanup
BinLayouts ==
    LET put(pairs) ==
            [x \in BinPaths |->
                IF \E pr \in pairs : pr[1] = x
                THEN (CHOOSE pr \in pairs : pr[1] = x)[2]
                ELSE AbsentBin]
        nvm(i, v) == fullPath(possiblePaths[i], v)
        at(i) == possiblePaths[i].path
    IN {put({}),
        put({<<nvm(1, "v20"), RealBin>>}),
        put({<<at(3), WrapperBin>>, <<at(4), WrapperBin>>}),
        put({<<at(3), RealBin>>, <<at(4), WrapperBin>>}),
        put({<<nvm(1, "v20"), RealBin>>, <<nvm(2, "v20"), WrapperBin>>}),
        put({<<nvm(1, "v18"), DirectoryBin>>, <<nvm(1, "v20"), WrapperBin>>,
             <<at(3), RealBin>>}),
        put({<<nvm(1, "v18"), WrapperBin>>, <<nvm(2, "v18"), WrapperBin>>,
             <<nvm(1, "v20"), RealBin>>}),
        put({<<at(5), ShimBin>>, <<at(6), ShimBin>>}),
        put({<<at(5), RealBin>>, <<at(6), ShimBin>>})}

CleanupArgs == {{}, {"--clean"}, {"--purge"}, {"--force"}, {"--help"}}

InitCleanup ==
    /\ shell \in Shells
    /\ \E present \in HomeLayouts :
           rc = [x \in RcFiles |-> IF x \in present THEN UserFile ELSE AbsentFile]
    /\ aliased = {}
    /\ inPc = "start"
    /\ unArgv = {}
    /\ unPc = "start"
    /\ userData \in {[dir |-> FALSE, log |-> "none", old |-> FALSE, other |-> FALSE],
                     [dir |-> TRUE, log |-> "underMax", old |-> FALSE, other |-> FALSE]}
    /\ file = IF userData.dir THEN Stored(getDefaultConfig) ELSE Missing
    /\ now = ClockStart
    /\ tool = ToolAbsent
    /\ last = NoCall
    /\ ops = 0
    /\ lookups = <<>>
    /\ updated = NoUpdates
    /\ CliIdle
    /\ bins \in BinLayouts
    /\ platform \in {"linux", "win32"}
    /\ clPc = "start"
    /\ clArgv \in CleanupArgs
    /\ rmw = [p \in Writers |-> IdleWriter]
    /\ lastWritten = getDefaultConfig

cleanupFrame ==
    UNCHANGED <<platform, clArgv, rmw, lastWritten, libVars, cliVars, shell,
                aliased, inPc, unArgv, unPc>>

\* the prefixes `npm uninstall -g` can work on, and the links of this
\* package's two commands under each
NpmPrefixes == {"v18", "v20", "/usr/local", "AppData/Roaming/npm"}

npmLinks(prefix) ==
    IF prefix = "/usr/local"
    THEN {possiblePaths[3].path, possiblePaths[4].path}
    ELSE IF prefix = "AppData/Roaming/npm"
    THEN {possiblePaths[5].path, possiblePaths[6].path}
    ELSE {fullPath(possiblePaths[1], prefix), fullPath(possiblePaths[2], prefix)}

\* `npm uninstall -g gemini-cli-updater`: the links that lead into the
\* package go
npmUninstallGlobal(b, prefix) ==
    [x \in DOMAIN b |->
        IF x \in npmLinks(prefix) /\ b[x].readable /\ isWrapper(b[x])
        THEN AbsentBin
        ELSE b[x]]

\* --help or -h: the script prints its usage
ClHelp ==
    /\ clPc = "start"
    /\ "--help" \in clArgv
    /\ clPc' = "done"
    /\ UNCHANGED <<bins, rc, userData, file>>
    /\ cleanupFrame

\* cleanup(): await this.npmUninstall(); a failure of the command is swallowed
ClNpmUninstall(ok, prefix) ==
    /\ clPc = "start"
    /\ "--help" \notin clArgv
    /\ bins' = IF ok THEN npmUninstallGlobal(bins, prefix) ELSE bins
    /\ clPc' = "binaries"
    /\ UNCHANGED <<rc, userData, file>>
    /\ cleanupFrame

\* cleanup(): await this.removeBinaries()
ClRemoveBinaries ==
    /\ clPc = "binaries"
    /\ bins' = removeBinaries(bins, 1)
    /\ clPc' = "aliases"
    /\ UNCHANGED <<rc, userData, file>>
    /\ cleanupFrame

\* cleanup(): await this.removeAliases()
ClRemoveAliases ==
    /\ clPc = "aliases"
    /\ rc' = cleanupRemoveAliases(rc, platform)
    /\ clPc' = "userData"
    /\ UNCHANGED <<bins, userData, file>>
    /\ cleanupFrame

\* cleanup(): await this.removeUserData()
ClRemoveUserData ==
    /\ clPc = "userData"
    /\ LET r == cleanupRemoveUserData(file, userData, clArgv)
       IN /\ file' = r.file
          /\ userData' = r.userData
    /\ clPc' = "verify"
    /\ UNCHANGED <<bins, rc>>
    /\ cleanupFrame

\* cleanup(): await this.verifyCleanup(), which only looks
ClVerifyCleanup ==
    /\ clPc = "verify"
    /\ clPc' = "done"
    /\ UNCHANGED <<bins, rc, userData, file>>
    /\ cleanupFrame

NextCleanup ==
    \/ InSetupShellAlias
    \/ ClHelp
    \/ \E ok \in BOOLEAN, prefix \in NpmPrefixes : ClNpmUninstall(ok, prefix)
    \/ ClRemoveBinaries
    \/ ClRemoveAliases
    \/ ClRemoveUserData
    \/ ClVerifyCleanup

SpecCleanup == InitCleanup /\ [][NextCleanup]_vars


-----------------------------------------------------------------------------
(* Properties of checkForUpdate and the config store, under Spec *)

\* a timestamp as JavaScript arithmetic sees it: null counts as 0
JsNum(x) == IF x = NULL THEN 0 ELSE x

\* the stored lastUpdateCheck the observed call started from
StoredLastCheck == getLastUpdateCheck(last.pre)

\* the observed checkForUpdate started less than one cooldown after the
\* stored lastUpdateCheck
CheckedInsideCooldown ==
    /\ last.op = "check"
    /\ last.t0 - JsNum(StoredLastCheck) < updateCooldown

\* C1: a checkForUpdate made less than one cooldown after the stored
\* lastUpdateCheck returns false, makes neither the current-version query nor
\* the registry lookup, and leaves the config file as it was.
C1_CooldownGate ==
    CheckedInsideCooldown =>
        /\ last.ret = FALSE
        /\ ~last.threw
        /\ last.calls = {}
        /\ file = last.pre

C1_Witness ==
    /\ CheckedInsideCooldown
    /\ StoredLastCheck = ClockStart - 1
    /\ last.t0 > ClockStart

\* the observed checkForUpdate got past the gate and both resolvers answered:
\* the registry sent a version and the comparison, if made, did not throw
CheckCompleted ==
    /\ last.op = "check"
    /\ ~CheckedInsideCooldown
    /\ last.reg.kind = "ok"

\* C2: every checkForUpdate that gets past the cooldown gate and whose two
\* resolvers complete without error has set lastUpdateCheck to the current
\* time when it returns, whatever it decided (as claimed).
C2_StampOnEveryCompletedCheck ==
    CheckCompleted => getLastUpdateCheck(file) = last.t1

\* the observed checkForUpdate got past the gate and a resolver failed: the
\* registry lookup rejected, or semver.lt threw on an undefined latest version
ResolverFailed ==
    /\ last.op = "check"
    /\ ~CheckedInsideCooldown
    /\ \/ last.reg.kind \in {"error", "timeout", "badjson"}
       \/ last.reg.kind = "nofield" /\ last.tool.kind = "version"

\* C3: a checkForUpdate in which a resolver fails returns false without
\* throwing and leaves the stored lastUpdateCheck (the whole file) as it was,
\* so the failed check starts no cooldown.
C3_FailedCheckLeavesStamp ==
    ResolverFailed =>
        /\ last.ret = FALSE
        /\ ~last.threw
        /\ file = last.pre
        /\ getLastUpdateCheck(file) = StoredLastCheck
        /\ ~isWithinCooldown(file, now)

C3_Witness ==
    /\ ResolverFailed
    /\ last.reg.kind = "timeout"
    /\ StoredLastCheck = ClockStart - UpdateCooldown

\* the observed call wrote the config file
WroteConfig ==
    \/ last.op \in {"addVersionHistory", "setLastUpdateCheck",
                    "setLastUpdateTime", "updateSettings", "importConfig",
                    "reset"}
    \/ last.op = "check" /\ last.branch \in {"needed", "uptodate"}
    \/ last.op = "perform" /\ last.branch \in {"installed", "unverified"}

\* C4: after any config write, the stored versionHistory has at most
\* settings.maxVersionHistory entries (as claimed).
C4_HistoryWithinCap ==
    WroteConfig =>
        Len(readConfig(file).versionHistory)
            <= readConfig(file).settings.maxVersionHistory

-----------------------------------------------------------------------------
(* Properties of the wrapper, under SpecCLI *)

\* the update phase of this run ended in an error
UpdatePhaseFailed ==
    \/ last.op = "check" /\ last.branch = "failed"
    \/ last.op = "perform" /\ last.threw

\* C5: a run without --skip-update never reaches run()'s catch or exits
\* before it has attempted the launch, whatever the update phase did.
C5_LaunchAfterUpdatePhase ==
    (~includesSkipUpdate(argv) /\ pc \in {"fatal", "exited"})
        => "launchGemini" \in done

C5_Witness ==
    /\ ~includesSkipUpdate(argv)
    /\ UpdatePhaseFailed
    /\ last.branch = "unverified"
    /\ pc = "exited"
    /\ "launchGemini" \in done

\* C6: once the child has closed, the wrapper has exited with the child's
\* code, or with 0 when a signal killed the child and it reported no code;
\* after a successful spawn the wrapper exits in no other way.
C6_ExitCodeMirrorsChild ==
    /\ child.state = "closed" =>
           /\ pc = "exited"
           /\ exitCode = (IF child.code = NULL THEN 0 ELSE child.code)
    /\ child.state = "running" => (pc = "running" /\ exitCode = NULL)

C6_Witness ==
    /\ child.state = "closed"
    /\ child.code = 1
    /\ located = "yes"
    /\ pc = "exited"

\* C7: the signals the wrapper received while the child runs have all been
\* sent on to the child, each as the same signal and in the order received,
\* and the wrapper is still running as long as the child has not closed.
C7_SignalsForwarded ==
    /\ forwarded = received
    /\ (received # <<>> /\ child.state = "running") => pc = "running"

C7_Witness ==
    /\ received = <<"SIGINT", "SIGTERM">>
    /\ child.state = "running"
    /\ pc = "running"

\* a child process was started by launchGemini's spawn
ChildSpawned == child.state \in {"running", "closed"}

\* C8: when the wrapped tool's executable cannot be located, no child
\* process is spawned and the wrapper exits with a non-zero code (as claimed).
C8_NotLocatedNoSpawn ==
    located = "no" =>
        /\ ~ChildSpawned
        /\ pc = "exited" => exitCode \notin {NULL, 0}

\* C9: with --skip-update the wrapper runs neither checkForUpdate nor
\* performUpdate, and the child gets exactly the user's arguments, in order,
\* without the --skip-update occurrences (as claimed).
C9_SkipUpdateForwardsArgs ==
    includesSkipUpdate(argv) =>
        /\ done \cap {"checkForUpdate", "performUpdate"} = {}
        /\ ChildSpawned =>
               child.args = SelectSeq(argv, LAMBDA a : a # SkipUpdateFlag)

\* C10: with GEMINI_UPDATER_SKIP_UPDATE = 'true' a run makes no update check:
\* no current-version query, no registry lookup, no install (as claimed).
C10_EnvSkipsUpdate ==
    env => done \cap {"checkForUpdate", "version", "registry", "install"} = {}


-----------------------------------------------------------------------------
(* Properties of forceUpdate and rollbackToPreviousVersion, under
   SpecExplicit *)

\* C11: whatever lastUpdateCheck is stored, a forceUpdate makes the
\* current-version query and the registry lookup.
C11_ForceUpdateAlwaysChecks ==
    last.op = "force" => ResolverCalls \subseteq last.calls

C11_Witness ==
    /\ last.op = "force"
    /\ StoredLastCheck = ClockStart - 1
    /\ last.t0 - StoredLastCheck < updateCooldown
    /\ ResolverCalls \subseteq last.calls

\* the version history the observed call started from
StoredHistory == getVersionHistory(last.pre)

\* C12: rollbackToPreviousVersion throws and runs no install command when
\* fewer than 2 history entries are stored; with 2 or more it runs the
\* install pinned to the `from` of the second-to-last entry.
C12_RollbackTarget ==
    last.op = "rollback" =>
        IF Len(StoredHistory) < 2
        THEN last.threw /\ last.calls = {}
        ELSE /\ last.calls = {"install"}
             /\ last.target = StoredHistory[Len(StoredHistory) - 1].from

C12_Witness ==
    /\ last.op = "rollback"
    /\ Len(StoredHistory) = 2
    /\ last.target = V123
    /\ last.ret = TRUE

\* the observed forceUpdate or rollback failed: the version lookup, the
\* install or the verification for forceUpdate; no target or a failed
\* install for the rollback
ExplicitOperationFailed ==
    \/ /\ last.op = "force"
       /\ \/ latestRejects(last.reg)
          \/ last.reg.kind = "nofield" /\ last.tool.kind = "version"
          \/ last.branch \in {"installFailed", "unverified"}
    \/ /\ last.op = "rollback"
       /\ last.branch \in {"noTarget", "rollbackFailed"}

\* C16: a failure during forceUpdate or rollbackToPreviousVersion reaches the
\* caller as a thrown error (as claimed).
C16_ExplicitFailuresThrow ==
    ExplicitOperationFailed => last.threw

-----------------------------------------------------------------------------
(* Further properties of checkForUpdate and the config store, under Spec *)

\* the observed checkForUpdate found no installed version
CheckedWithoutTool ==
    /\ last.op = "check"
    /\ last.tool.kind # "version"

\* C13 as claimed: past the cooldown a check that finds no installed version
\* returns true; inside the cooldown it returns false.
C13_AbsentMeansUpdate ==
    /\ (CheckedWithoutTool /\ ~CheckedInsideCooldown) => last.ret = TRUE
    /\ (CheckedWithoutTool /\ CheckedInsideCooldown) => last.ret = FALSE

\* C13 amended: past the cooldown a check that finds no installed version
\* and whose registry lookup does not reject returns true, without comparing
\* (also when the registry's answer carries no version); inside the cooldown
\* it returns false.
C13_AbsentMeansUpdateUnlessLookupRejects ==
    /\ (CheckedWithoutTool /\ ~CheckedInsideCooldown /\ ~latestRejects(last.reg))
           => (last.ret = TRUE /\ ~last.threw)
    /\ (CheckedWithoutTool /\ CheckedInsideCooldown) => last.ret = FALSE

C13_Witness ==
    /\ CheckedWithoutTool
    /\ ~CheckedInsideCooldown
    /\ last.reg.kind = "nofield"
    /\ last.ret = TRUE

\* C14: past the cooldown, with the tool reporting a version and the
\* registry answering one, checkForUpdate returns true iff the reported
\* version precedes the latest in semantic-version order (as claimed).
C14_UpdateIffSemverLess ==
    (/\ last.op = "check"
     /\ ~CheckedInsideCooldown
     /\ last.tool.kind = "version"
     /\ last.reg.kind = "ok")
        => (last.ret <=> semverLt(last.tool.v, last.reg.v))

\* C17: a config read never fails and leaves a file that exists and parses
\* (as claimed).
C17_ReadRepairsFile ==
    last.op = "read" => (~last.threw /\ file.state = "ok")


-----------------------------------------------------------------------------
(* Further properties of the wrapper, under SpecCLI *)

includesForceUpdate(args) == \E i \in 1..Len(args) : args[i] = ForceUpdateFlag

\* the wrapper's checkAndUpdate has called checkForUpdate and it has returned
UpdateCheckReturned == "checkForUpdate" \in done

\* C20: a wrapper run given --force-update makes the update check (the
\* version query and the registry lookup) whatever the cooldown (as claimed).
C20_ForceUpdateFlagChecks ==
    (/\ includesForceUpdate(argv)
     /\ ~includesSkipUpdate(argv)
     /\ UpdateCheckReturned)
        => ResolverCalls \subseteq done


-----------------------------------------------------------------------------
(* Properties of successive wrapper runs, under SpecRuns *)

\* two checks reached the registry
TwoLookups == Len(lookups) = 2

\* the time between the end of the earlier lookup and the start of the later
LookupGap == lookups[2].t0 - lookups[1].t1

-----------------------------------------------------------------------------
(* Properties of the install and uninstall scripts, under SpecSetup *)

\* uninstall() has returned
UninstallCompleted == unPc = "done" /\ "--dry-run" \notin unArgv

\* C18: once uninstall() has completed with --clean or --purge (--force
\* pushes --clean), neither config.json nor updater.log exists (as claimed).
C18_CleanLeavesNoUserData ==
    (UninstallCompleted /\ ({"--clean", "--purge"} \cap unArgv # {})) =>
        (file.state = "missing" /\ userData.log = "none")

\* removeShellAliases has run after setupShellAlias
AliasesAddedThenRemoved ==
    /\ inPc = "done"
    /\ \/ unPc \in {"userData", "log"}
       \/ UninstallCompleted

\* C19: after setupShellAlias and then removeShellAliases, no config file the
\* installer appended to still holds the alias line it wrote (as claimed).
C19_AliasRemovedEverywhere ==
    AliasesAddedThenRemoved =>
        \A x \in aliased :
            ~contentIncludes(rc[x].lines,
                 generateAliasCommand(shell, "gemini", "gemini-cli-updater"))


-----------------------------------------------------------------------------
(* Properties of the version history and of performUpdate, under Spec *)

\* the m most recent entries of s, none for m = 0
MostRecent(s, m) ==
    IF Len(s) <= m THEN s ELSE SubSeq(s, Len(s) - m + 1, Len(s))

\* the cap the observed call found stored
StoredCap == readConfig(last.pre).settings.maxVersionHistory

\* C22: after addVersionHistory(from, to) the stored history is the
\* settings.maxVersionHistory most recent entries of the prior history
\* followed by {from, to, timestamp: now, success: true}, for every prior
\* history and every cap (as claimed).
C22_HistoryKeepsTail ==
    last.op = "addVersionHistory" =>
        \E p \in HistoryPairs :
            getVersionHistory(file) =
                MostRecent(Append(getVersionHistory(last.pre),
                                  [from |-> p[1], to |-> p[2],
                                   timestamp |-> last.t0, success |-> TRUE]),
                           StoredCap)

\* the install command of the observed performUpdate exited successfully:
\* only then does it go on to the version query
InstallSucceeded == "version" \in last.calls

\* C24: performUpdate sets lastUpdateTime to now exactly when the install
\* command succeeds: a failed install leaves the file as it was and throws;
\* a successful one sets lastUpdateTime, and throws when the version query
\* that follows yields no version.
C24_UpdateTimeOnInstallSuccess ==
    last.op = "perform" =>
        IF InstallSucceeded
        THEN /\ getLastUpdateTime(file) = last.t0
             /\ last.threw <=> getCurrentVersion(last.tool) = None
        ELSE /\ file = last.pre
             /\ last.threw

C24_Witness ==
    /\ last.op = "perform"
    /\ InstallSucceeded
    /\ getCurrentVersion(last.tool) = None
    /\ last.threw
    /\ getLastUpdateTime(file) = last.t0
    /\ getLastUpdateTime(last.pre) # last.t0

\* C26: getLatestVersion rejects on every answer that carries no version
\* (connection error, timeout, unparsable body, body without a version
\* field) and resolves only with a version (as claimed).
C26_LatestVersionRejectsWithoutVersion ==
    (last.op = "check" /\ "registry" \in last.calls) =>
        (latestRejects(last.reg) <=> getLatestVersion(last.reg) = None)

\* C30: with lastUpdateCheck stored, checkForUpdate is skipped iff it starts
\* less than the stored settings.updateCooldown after it (as claimed).
C30_GateUsesStoredCooldown ==
    (last.op = "check" /\ ~Falsy(StoredLastCheck)) =>
        (last.calls = {}
            <=> last.t0 - StoredLastCheck < getUpdateCooldown(last.pre))

-----------------------------------------------------------------------------
(* The history entry of a wrapper run, under SpecCLI *)

\* the newest stored history entry records the step from the installed
\* version to the latest, taken now
HistoryRecordsPendingUpdate ==
    LET h == getVersionHistory(file)
    IN /\ Len(h) > 0
       /\ h[Len(h)].to = last.reg.v
       /\ h[Len(h)].timestamp = last.t1
       /\ last.tool.kind = "version" => h[Len(h)].from = getCurrentVersion(last.tool).v

\* C23: when checkForUpdate has returned true and the install step is about
\* to start, the history entry (from = current, to = latest) is in the
\* config (as claimed).
C23_HistoryBeforeInstall ==
    (pc = "update" /\ last.op = "check" /\ last.ret = TRUE
        /\ last.reg.kind = "ok") =>
        HistoryRecordsPendingUpdate

-----------------------------------------------------------------------------
(* Properties of a chain of updates, under SpecUpdater *)

RollbackInstallFailed == last.branch = "rollbackFailed"

\* C29: after one or more verified updates in a row, each recorded by
\* checkForUpdate and installed by performUpdate, rollbackToPreviousVersion
\* succeeds and pins the version installed before the latest update (as
\* claimed; a failing npm command apart).
C29_RollbackReinstallsPrevious ==
    (last.op = "rollback" /\ last.chain.n >= 1 /\ ~RollbackInstallFailed) =>
        /\ last.ret = TRUE
        /\ ~last.threw
        /\ last.target = last.chain.from

\* C25: of two checks in a row that did not fail, the second leaves a stored
\* lastUpdateCheck no smaller than the one the first left, once that is
\* non-null (as claimed).
C25_LastUpdateCheckMonotonic ==
    (Len(lookups) = 2 /\ ~lookups[1].failed /\ ~lookups[2].failed
        /\ lookups[1].stamp # NULL) =>
        lookups[2].stamp >= lookups[1].stamp

-----------------------------------------------------------------------------
(* Properties of two racing writers, under SpecRace *)

RaceRunning == \E p \in Writers : rmw[p].pc # "idle"
NoWriteInProgress == \A p \in Writers : rmw[p].pc # "open"
AllWritersDone == \A p \in Writers : rmw[p].pc = "done"

\* C27: with two runs interleaving their config writes, the file holds one
\* whole document whenever no write is in progress, and the last written
\* document once both have finished (as claimed).
C27_WholeDocumentUnderRace ==
    RaceRunning =>
        /\ NoWriteInProgress => file.state = "ok"
        /\ AllWritersDone => file = Stored(lastWritten)

-----------------------------------------------------------------------------
(* Properties of the cleanup script, under SpecCleanup *)

RemoveBinariesStep == clPc = "binaries" /\ clPc' = "aliases"

\* C21: removeBinaries deletes a file at a candidate path only if its
\* content has one of the two markers; a file without them is still there,
\* unchanged, afterwards.
C21_OnlyMarkedBinariesRemoved ==
    [][RemoveBinariesStep =>
          \A x \in BinPaths :
              /\ bins'[x] # bins[x] => (bins[x].readable /\ isWrapper(bins[x]))
              /\ (bins[x].exists /\ ~isWrapper(bins[x])) => bins'[x] = bins[x]]_vars

\* removeBinaries has run: the launcher of the real tool is still at
\* /usr/local/bin/gemini, and the wrapper that stood next to it is gone
C21_Witness ==
    /\ clPc = "aliases"
    /\ bins = [x \in BinPaths |->
                  IF x = possiblePaths[3].path THEN RealBin ELSE AbsentBin]

hasLine(f, line) == f.exists /\ \E i \in 1..Len(f.lines) : f.lines[i] = line

RemoveAliasesStep == clPc = "aliases" /\ clPc' = "userData"

\* C28: after the installer appended its block (comment line and alias
\* line) to a config file, removeAliases leaves neither line in that file (as
\* claimed).
C28_AliasBlockRemoved ==
    [][RemoveAliasesStep =>
          \A x \in aliased :
              /\ ~hasLine(rc'[x], AliasComment)
              /\ ~hasLine(rc'[x], generateAliasCommand(shell, "gemini",
                                                       "gemini-cli-updater"))]_vars

====
